---- MODULE Spec2Model ----
(***************************************************************************)
(* A model of CharFrequencyAnalyzer (src/src/char_frequency_analyzer.py):  *)
(* the text loader with its encoding fallback and chunked reads, the       *)
(* extractor, the frequency aggregator, the report generator and analyze.  *)
(*                                                                         *)
(* Texts are sequences of Unicode code points.  A Counter / dict is a      *)
(* sequence of <<key, count>> pairs in insertion order, because the order  *)
(* of a Python dict decides how most_common breaks ties.  An optional      *)
(* value is a sequence of length 0 (None, {}) or 1.  A float quotient a/b  *)
(* is the reduced fraction [num, den].  The report's analysis_time (a wall *)
(* clock string) is left out of the report record.                         *)
(***************************************************************************)
EXTENDS Integers, Sequences, FiniteSets, TLC

VARIABLES
    config,          \* self.config: the AnalysisConfig of the analyzer
    char_counter,    \* self.char_counter
    analysis_stats,  \* self.analysis_stats: <<>> for {} or <<report>>
    pc,              \* position of the caller
    file,            \* the file named by the path given to the call
    chars,           \* the character list given to the aggregator calls
    arg_n,           \* the argument n given to get_top_characters
    ret,             \* what the last call returned or raised
    calls,           \* the methods the last analyze invoked, in order
    remembered       \* an earlier analyze run: <<>> or <<[file, ret]>>

vars == <<config, char_counter, analysis_stats, pc, file, chars, arg_n, ret,
          calls, remembered>>

----------------------------------------------------------------------------
(* Bounds of the model *)

MaxSeqLen == 4
MaxTopN == 2
MaxMinFreq == 2
MaxTopArg == 4
MaxLoadLen == 2
MaxChunk == 2

----------------------------------------------------------------------------
(* Code points *)

\* chinese_pattern: the range U+4E00 to U+9FFF
ChineseLo == 19968
ChineseHi == 40959
\* punctuation_pattern: the ranges U+3000 to U+303F and U+FF00 to U+FFEF
PunctLoA == 12288
PunctHiA == 12351
PunctLoB == 65280
PunctHiB == 65519

\* the code points the sample inputs are made of
Sample ==
    [yi |-> 19968, er |-> 20108, san |-> 19977, space |-> 32, newline |-> 10,
     h |-> 104, one |-> 49, ideographic_space |-> 12288, mojibake |-> 228]

Yi == Sample.yi                \* U+4E00
Er == Sample.er                \* U+4E8C
San == Sample.san              \* U+4E09
Space == Sample.space
Newline == Sample.newline
LetterH == Sample.h
DigitOne == Sample.one
IdeographicSpace == Sample.ideographic_space   \* U+3000: whitespace, and in the punctuation range
Mojibake == Sample.mojibake    \* what a non-ASCII byte reads as under latin-1

\* the code points str.strip() removes
Whitespace ==
    (9 .. 13) \cup (28 .. 32) \cup {133, 160, 5760} \cup (8192 .. 8202)
        \cup {8232, 8233, 8239, 8287, 12288}

----------------------------------------------------------------------------
(* Helpers *)

Min(a, b) == IF a <= b THEN a ELSE b

RECURSIVE GCD(_, _)
GCD(a, b) == IF b = 0 THEN a ELSE GCD(b, a % b)

\* the float a / b (b > 0)
Quotient(a, b) == LET g == GCD(a, b) IN [num |-> a \div g, den |-> b \div g]

\* the int 0 that stands where a quotient would be
Zero == [num |-> 0, den |-> 1]

RECURSIVE SumSeq(_)
SumSeq(s) == IF s = <<>> THEN 0 ELSE Head(s) + SumSeq(Tail(s))

SeqMax(s) == CHOOSE x \in {s[i] : i \in DOMAIN s} : \A j \in DOMAIN s : s[j] <= x
SeqMin(s) == CHOOSE x \in {s[i] : i \in DOMAIN s} : \A j \in DOMAIN s : x <= s[j]

SeqsUpTo(S, n) == UNION {[1 .. k -> S] : k \in 0 .. n}

----------------------------------------------------------------------------
(* AnalysisConfig *)

DefaultTopN == 50
DefaultChunkSize == 1024 * 1024

AnalysisConfig(top_n, min_frequency, exclude_punctuation, save, charts, chunk_size) ==
    [top_n |-> top_n, min_frequency |-> min_frequency,
     exclude_punctuation |-> exclude_punctuation,
     save_results |-> save, generate_charts |-> charts,
     chunk_size |-> chunk_size]

----------------------------------------------------------------------------
(* collections.Counter *)

Keys(counter) == {counter[i][1] : i \in DOMAIN counter}

IndexOf(counter, c) == CHOOSE i \in DOMAIN counter : counter[i][1] = c

CountOf(counter, c) == IF c \in Keys(counter) THEN counter[IndexOf(counter, c)][2] ELSE 0

Values(counter) == [i \in DOMAIN counter |-> counter[i][2]]

IncrNewOnly(counter, c) ==
    IF c \in Keys(counter) THEN counter ELSE Append(counter, <<c, 1>>)

\* counter[c] += 1: a new key goes to the end
Incr(counter, c) ==
    IF c \in Keys(counter)
    THEN [counter EXCEPT ![IndexOf(counter, c)] = <<c, @[2] + 1>>]
    ELSE Append(counter, <<c, 1>>)

RECURSIVE CounterUpdate(_, _)
CounterUpdate(counter, elems) ==
    IF elems = <<>> THEN counter
    ELSE CounterUpdate(Incr(counter, Head(elems)), Tail(elems))

\* Counter(iterable)
Counter(elems) == CounterUpdate(<<>>, elems)

\* dict(counter), as the function it denotes
Dict(counter) == [c \in Keys(counter) |-> CountOf(counter, c)]

InsertDescTiesFirst(sorted, e) ==
    LET k == Cardinality({i \in DOMAIN sorted : sorted[i][2] > e[2]})
    IN  SubSeq(sorted, 1, k) \o <<e>> \o SubSeq(sorted, k + 1, Len(sorted))

\* one step of the stable sort by count, descending: e goes after every
\* entry whose count is not smaller
InsertDesc(sorted, e) ==
    LET k == Cardinality({i \in DOMAIN sorted : sorted[i][2] >= e[2]})
    IN  SubSeq(sorted, 1, k) \o <<e>> \o SubSeq(sorted, k + 1, Len(sorted))

RECURSIVE SortInto(_, _)
SortInto(sorted, items) ==
    IF items = <<>> THEN sorted
    ELSE SortInto(InsertDesc(sorted, Head(items)), Tail(items))

\* sorted(items, key=itemgetter(1), reverse=True)
SortedByCountDesc(items) == SortInto(<<>>, items)

\* heapq.nlargest(n, items, key=itemgetter(1))
NLargest(n, items) ==
    IF n <= 0 THEN <<>>
    ELSE SubSeq(SortedByCountDesc(items), 1, Min(n, Len(items)))

\* Counter.most_common(n); n is <<>> for None
MostCommon(counter, n) ==
    IF n = <<>> THEN SortedByCountDesc(counter) ELSE NLargest(n[1], counter)

----------------------------------------------------------------------------
(* The aggregator and the report generator *)

CarriedCharCounter(self_counter, elems) == CounterUpdate(self_counter, elems)

\* self.char_counter = Counter(chars)
NewCharCounter(self_counter, elems) == Counter(elems)

KeepAll(cfg, counter) == counter

\* the low-frequency filter of calculate_frequency
FilterLowFrequency(cfg, counter) ==
    IF cfg.min_frequency > 1
    THEN SelectSeq(counter, LAMBDA e : e[2] >= cfg.min_frequency)
    ELSE counter

\* calculate_frequency: the new self.char_counter and the returned dict
calculate_frequency(cfg, self_counter, elems) ==
    LET counter == FilterLowFrequency(cfg, NewCharCounter(self_counter, elems))
    IN  [char_counter |-> counter, result |-> Dict(counter)]

TopNoFallback(cfg, n) == IF n = <<>> THEN cfg.top_n ELSE n[1]

\* n = n or self.config.top_n
TopOrDefault(cfg, n) == IF n = <<>> \/ n[1] = 0 THEN cfg.top_n ELSE n[1]

get_top_characters(cfg, self_counter, n) ==
    MostCommon(self_counter, <<TopOrDefault(cfg, n)>>)

CoverageOneWhenEmpty(total_chars, unique_chars) ==
    IF total_chars > 0 THEN Quotient(unique_chars, total_chars)
    ELSE [num |-> 1, den |-> 1]

\* unique_chars / total_chars if total_chars > 0 else 0
CoverageRatio(total_chars, unique_chars) ==
    IF total_chars > 0 THEN Quotient(unique_chars, total_chars) ELSE Zero

generate_analysis_report(cfg, self_counter, elems) ==
    LET total_chars == Len(elems)
        unique_chars == Len(self_counter)
        top_chars == get_top_characters(cfg, self_counter, <<>>)
        frequencies == Values(self_counter)
    IN  [basic_stats |->
            [total_characters |-> total_chars,
             unique_characters |-> unique_chars,
             coverage_ratio |-> CoverageRatio(total_chars, unique_chars)],
         frequency_stats |->
            [max_frequency |-> IF frequencies # <<>> THEN SeqMax(frequencies) ELSE 0,
             min_frequency |-> IF frequencies # <<>> THEN SeqMin(frequencies) ELSE 0,
             avg_frequency |-> IF frequencies # <<>>
                               THEN Quotient(SumSeq(frequencies), Len(frequencies))
                               ELSE Zero],
         top_characters |-> top_chars]

----------------------------------------------------------------------------
(* Files and the text loader *)

\* 50 * 1024 * 1024 bytes
LargeFileThreshold == 50 * 1024 * 1024

\* for fallback_encoding in ['gbk', 'gb2312', 'utf-8', 'latin-1']
FallbackEncodings == <<"gbk", "gb2312", "utf-8", "latin-1">>

\* the codecs open() can look up, among the names the detector may give;
\* chardet also names encodings Python has no codec for, such as EUC-TW
KnownCodecs == {"utf-8", "gbk", "gb2312", "latin-1"}

SameCodecFamily(a, b) == a = b \/ {a, b} = {"gbk", "gb2312"}

\* A file: whether the path exists, its size in bytes as stat() gives it,
\* what chardet.detect answers on its first bytes, the encoding it was
\* written in, the code points written, and the encodings under which a
\* text-mode read of it raises.  The code points stand for the content; the
\* size is drawn apart from them, so that both sides of the threshold occur.
File(exists, size, chardet, encoding, bytes, unreadable) ==
    [exists |-> exists, size |-> size, chardet |-> chardet, encoding |-> encoding,
     bytes |-> bytes, unreadable |-> unreadable]

\* chardet.detect: an exception, the encoding None, or an encoding name
Chardet(raises, encoding) == [raises |-> raises, encoding |-> encoding]

\* a path that does not exist
MissingFile == File(FALSE, 0, Chardet(TRUE, <<>>), "utf-8", <<>>, {})

\* what one written code point reads as under enc with errors='ignore':
\* ASCII reads the same in every codec here, the file's own encoding reads
\* it back, latin-1 reads some Latin letter, any other codec drops it
DecodeUnit(f, enc, u) ==
    IF u < 128 \/ SameCodecFamily(enc, f.encoding) THEN <<u>>
    ELSE IF enc = "latin-1" THEN <<Mojibake>>
    ELSE <<>>

RECURSIVE DecodeFrom(_, _, _)
DecodeFrom(f, enc, bytes) ==
    IF bytes = <<>> THEN <<>>
    ELSE DecodeUnit(f, enc, Head(bytes)) \o DecodeFrom(f, enc, Tail(bytes))

\* the text a text-mode stream of f under enc delivers
Decode(f, enc) == DecodeFrom(f, enc, f.bytes)

\* the exception open(..., encoding=enc, errors='ignore') and its reads
\* raise, "" for none
OpenRaises(f, enc) ==
    IF enc \notin KnownCodecs THEN "LookupError"
    ELSE IF enc \in f.unreadable THEN "UnicodeDecodeError"
    ELSE ""

\* detect_encoding: encoding or 'utf-8', and 'utf-8' on any exception
detect_encoding(f) ==
    IF f.chardet.raises \/ f.chardet.encoding = <<>> THEN "utf-8"
    ELSE f.chardet.encoding[1]

\* f.read(n) at position pos of the stream
ReadN(stream, pos, n) ==
    IF n < 0 THEN SubSeq(stream, pos + 1, Len(stream))
    ELSE SubSeq(stream, pos + 1, Min(pos + n, Len(stream)))

RECURSIVE JoinReversed(_)
JoinReversed(parts) ==
    IF parts = <<>> THEN <<>> ELSE JoinReversed(Tail(parts)) \o Head(parts)

\* ''.join(content_parts)
RECURSIVE Join(_)
Join(parts) ==
    IF parts = <<>> THEN <<>> ELSE Head(parts) \o Join(Tail(parts))

\* the while True loop of _load_large_file
RECURSIVE ReadChunks(_, _, _, _, _)
ReadChunks(stream, pos, content_parts, chunk_size, reads) ==
    LET chunk == ReadN(stream, pos, chunk_size)
    IN  IF chunk = <<>>
        THEN [content |-> Join(content_parts), reads |-> reads + 1]
        ELSE ReadChunks(stream, pos + Len(chunk), Append(content_parts, chunk),
                        chunk_size, reads + 1)

\* _load_large_file, once the stream is open
load_large_file(cfg, f, encoding) ==
    ReadChunks(Decode(f, encoding), 0, <<>>, cfg.chunk_size, 0)

Loaded(text, opened, reads, path) ==
    [raised |-> "", message |-> "", text |-> text, detected |-> TRUE,
     opened |-> opened, reads |-> reads, path |-> path]

LoadFailed(raised, message, detected, opened) ==
    [raised |-> raised, message |-> message, text |-> <<>>, detected |-> detected,
     opened |-> opened, reads |-> 0, path |-> "failed"]

\* the for loop over the fallback encodings: the first that reads wins, any
\* exception moves on, and the end of the list raises Exception
RECURSIVE TryFallbacks(_, _, _)
TryFallbacks(f, i, opened) ==
    IF i > Len(FallbackEncodings)
    THEN LoadFailed("Exception", "no encoding could read the file", TRUE, opened)
    ELSE LET fallback_encoding == FallbackEncodings[i]
             now == Append(opened, fallback_encoding)
         IN  IF OpenRaises(f, fallback_encoding) = ""
             THEN Loaded(Decode(f, fallback_encoding), now, 1, "fallback")
             ELSE TryFallbacks(f, i + 1, now)

\* except UnicodeDecodeError
CatchesDecodeError(raised) == raised = "UnicodeDecodeError"

\* load_text_file: the text, or the exception raised; opened lists the
\* encodings of the text-mode opens in order, reads counts the read calls
load_text_file(cfg, f) ==
    IF ~f.exists
    THEN LoadFailed("FileNotFoundError", "file does not exist", FALSE, <<>>)
    ELSE LET encoding == detect_encoding(f)
             raised == OpenRaises(f, encoding)
         IN  IF raised = ""
             THEN IF f.size > LargeFileThreshold
                  THEN LET r == load_large_file(cfg, f, encoding)
                       IN  Loaded(r.content, <<encoding>>, r.reads, "chunked")
                  ELSE Loaded(Decode(f, encoding), <<encoding>>, 1, "single")
             ELSE IF CatchesDecodeError(raised)
                  THEN TryFallbacks(f, 1, <<encoding>>)
                  ELSE LoadFailed(raised, "unknown encoding", TRUE, <<encoding>>)

----------------------------------------------------------------------------
(* The extractor *)

IsChinese(c) == ChineseLo <= c /\ c <= ChineseHi

IsPunctuation(c) ==
    \/ PunctLoA <= c /\ c <= PunctHiA
    \/ PunctLoB <= c /\ c <= PunctHiB

extract_chinese_chars(cfg, text) ==
    LET chinese_chars == SelectSeq(text, IsChinese)
    IN  IF cfg.exclude_punctuation
        THEN SelectSeq(chinese_chars, LAMBDA c : ~IsPunctuation(c))
        ELSE chinese_chars

----------------------------------------------------------------------------
(* analyze *)

\* text.strip()
Strip(text) ==
    LET kept == {i \in DOMAIN text : text[i] \notin Whitespace}
    IN  IF kept = {} THEN <<>>
        ELSE SubSeq(text,
                    CHOOSE i \in kept : \A j \in kept : i <= j,
                    CHOOSE i \in kept : \A j \in kept : j <= i)

NeverBlank(text) == FALSE

\* not text.strip()
IsBlank(text) == Strip(text) = <<>>

\* the files save_results writes
save_results(cfg, report) ==
    IF ~cfg.save_results THEN {}
    ELSE {"character_frequency_analysis.json", "top_characters.csv"}

\* the files generate_visualization writes
generate_visualization(cfg, self_counter) ==
    IF ~cfg.generate_charts THEN {}
    ELSE LET top_chars == get_top_characters(cfg, self_counter, <<20>>)
         IN  IF top_chars = <<>> THEN {}
             ELSE {"character_frequency_bar_chart.png"}
                      \cup (IF Len(top_chars) >= 10
                            THEN {"character_frequency_pie_chart.png"} ELSE {})

\* what analyze hands back: the exception raised ("" for none) with its
\* message, the report returned, and the files written on the way
Outcome(raised, message, report, written) ==
    [raised |-> raised, message |-> message, report |-> report, written |-> written]

\* analyze: the analyzer's fields afterwards, the outcome, and the methods
\* invoked in order
analyze(cfg, self_counter, self_stats, f) ==
    LET loaded == load_text_file(cfg, f)
        text == loaded.text
        chinese_chars == extract_chinese_chars(cfg, text)
        counted == calculate_frequency(cfg, self_counter, chinese_chars)
        report == generate_analysis_report(cfg, counted.char_counter, chinese_chars)
        written == save_results(cfg, report)
                       \cup generate_visualization(cfg, counted.char_counter)
        top == get_top_characters(cfg, counted.char_counter, <<1>>)
        all_calls == <<"load_text_file", "extract_chinese_chars", "calculate_frequency",
                       "generate_analysis_report", "save_results",
                       "generate_visualization", "get_top_characters">>
    IN  IF loaded.raised # ""
        THEN [char_counter |-> self_counter, analysis_stats |-> self_stats,
              ret |-> Outcome(loaded.raised, loaded.message, <<>>, {}),
              calls |-> SubSeq(all_calls, 1, 1)]
        ELSE IF IsBlank(text)
        THEN [char_counter |-> self_counter, analysis_stats |-> self_stats,
              ret |-> Outcome("ValueError", "file content is empty", <<>>, {}),
              calls |-> SubSeq(all_calls, 1, 1)]
        ELSE IF chinese_chars = <<>>
        THEN [char_counter |-> self_counter, analysis_stats |-> self_stats,
              ret |-> Outcome("ValueError", "no Chinese characters found", <<>>, {}),
              calls |-> SubSeq(all_calls, 1, 2)]
        ELSE IF top = <<>>
        THEN [char_counter |-> counted.char_counter, analysis_stats |-> <<report>>,
              ret |-> Outcome("IndexError", "list index out of range", <<>>, written),
              calls |-> all_calls]
        ELSE [char_counter |-> counted.char_counter, analysis_stats |-> <<report>>,
              ret |-> Outcome("", "", <<report>>, written),
              calls |-> all_calls]

----------------------------------------------------------------------------
(* The aggregator calls on a fresh analyzer: SpecApi *)

ChineseChars == {Yi, Er, San}

\* Scenario A and Scenario D of the specification
ScenarioA == <<San, San, San, Er, Er, Yi>>
ScenarioD == <<Yi, Er, Er, San, San, San>>

\* a tie between two characters that survives min_frequency = 2
TieAfterFilter == <<San, Er, Yi, Er, Yi>>

CharSeqs == SeqsUpTo(ChineseChars, MaxSeqLen) \cup {ScenarioA, ScenarioD, TieAfterFilter}

ApiConfigs ==
    {AnalysisConfig(t, m, TRUE, TRUE, TRUE, DefaultChunkSize) :
        t \in 1 .. MaxTopN, m \in 0 .. MaxMinFreq}

TopArgs == {<<>>} \cup {<<k>> : k \in -1 .. MaxTopArg}

InitApi ==
    /\ config \in ApiConfigs
    /\ char_counter = <<>>
    /\ analysis_stats = <<>>
    /\ pc = "ready"
    /\ file = MissingFile
    /\ chars \in CharSeqs
    /\ arg_n \in TopArgs
    /\ ret = <<>>
    /\ calls = <<>>
    /\ remembered = <<>>

CalculateFrequency ==
    /\ pc = "ready"
    /\ LET r == calculate_frequency(config, char_counter, chars)
       IN  /\ char_counter' = r.char_counter
           /\ ret' = r.result
    /\ pc' = "calculated"
    /\ UNCHANGED <<config, analysis_stats, file, chars, arg_n, calls, remembered>>

GenerateAnalysisReport ==
    /\ pc = "calculated"
    /\ LET report == generate_analysis_report(config, char_counter, chars)
       IN  /\ analysis_stats' = <<report>>
           /\ ret' = report
    /\ pc' = "reported"
    /\ UNCHANGED <<config, char_counter, file, chars, arg_n, calls, remembered>>

GetTopCharacters ==
    /\ pc \in {"ready", "calculated", "reported"}
    /\ ret' = get_top_characters(config, char_counter, arg_n)
    /\ pc' = "top"
    /\ UNCHANGED <<config, char_counter, analysis_stats, file, chars, arg_n, calls,
                   remembered>>

NextApi == CalculateFrequency \/ GenerateAnalysisReport \/ GetTopCharacters

SpecApi == InitApi /\ [][NextApi]_vars

----------------------------------------------------------------------------
(* load_text_file on one file: SpecLoad *)

LoadAlphabet == {Yi, LetterH, Space}

ChardetAnswers ==
    {Chardet(TRUE, <<>>), Chardet(FALSE, <<>>), Chardet(FALSE, <<"utf-8">>),
     Chardet(FALSE, <<"gbk">>), Chardet(FALSE, <<"EUC-TW">>)}

LoadFiles ==
    {MissingFile} \cup
    {File(TRUE, size, chardet, encoding, bytes, unreadable) :
        size \in {LargeFileThreshold, LargeFileThreshold + 1},
        chardet \in ChardetAnswers,
        encoding \in {"utf-8", "gbk"},
        bytes \in SeqsUpTo(LoadAlphabet, MaxLoadLen),
        unreadable \in SUBSET KnownCodecs}

LoadConfigs ==
    {AnalysisConfig(DefaultTopN, 1, TRUE, TRUE, TRUE, chunk_size) :
        chunk_size \in (-1 .. MaxChunk) \cup {DefaultChunkSize}}

InitLoad ==
    /\ config \in LoadConfigs
    /\ char_counter = <<>>
    /\ analysis_stats = <<>>
    /\ pc = "ready"
    /\ file \in LoadFiles
    /\ chars = <<>>
    /\ arg_n = <<>>
    /\ ret = <<>>
    /\ calls = <<>>
    /\ remembered = <<>>

LoadTextFile ==
    /\ pc = "ready"
    /\ ret' = load_text_file(config, file)
    /\ pc' = "loaded"
    /\ UNCHANGED <<config, char_counter, analysis_stats, file, chars, arg_n, calls,
                   remembered>>

NextLoad == LoadTextFile

SpecLoad == InitLoad /\ [][NextLoad]_vars

----------------------------------------------------------------------------
(* analyze, called again and again on one analyzer: Spec *)

PlainFile(bytes) ==
    File(TRUE, Len(bytes), Chardet(FALSE, <<"utf-8">>), "utf-8", bytes, {})

\* the contents analyze is called on: empty, whitespace only, without any
\* ideograph, and with ideographs.  Files adds a missing path, a large file,
\* a file read through the fallback chain and a file no encoding reads; the
\* answers of the detector are varied in SpecLoad.
SampleTexts ==
    {<<>>, <<Space>>, <<IdeographicSpace, Newline>>,
     <<LetterH>>, <<LetterH, Space, DigitOne>>,
     <<Yi>>, <<Yi, Yi>>, <<Yi, San>>, <<San, Yi>>, <<Yi, Yi, San>>,
     <<LetterH, Yi, Space, San, Yi, Newline>>, ScenarioA}

Files ==
    {MissingFile} \cup {PlainFile(bytes) : bytes \in SampleTexts} \cup
    {File(TRUE, LargeFileThreshold + 1, Chardet(FALSE, <<"utf-8">>), "utf-8",
          <<Yi, San, Yi>>, {}),
     File(TRUE, 2, Chardet(FALSE, <<>>), "gbk", <<San, Yi>>, {"utf-8"}),
     File(TRUE, 2, Chardet(TRUE, <<>>), "utf-8", <<Yi, San>>, KnownCodecs)}

Configs ==
    {AnalysisConfig(top_n, min_frequency, exclude_punctuation, save, charts,
                    DefaultChunkSize) :
        top_n \in {1, DefaultTopN}, min_frequency \in {1, 2},
        exclude_punctuation \in BOOLEAN, save \in BOOLEAN, charts \in BOOLEAN}

Init ==
    /\ config \in Configs
    /\ char_counter = <<>>
    /\ analysis_stats = <<>>
    /\ pc = "idle"
    /\ file = MissingFile
    /\ chars = <<>>
    /\ arg_n = <<>>
    /\ ret = <<>>
    /\ calls = <<>>
    /\ remembered = <<>>

\* One call of analyze.  remembered keeps, or not, the run that ended just
\* before this one.
Analyze(f) ==
    /\ LET r == analyze(config, char_counter, analysis_stats, f)
       IN  /\ char_counter' = r.char_counter
           /\ analysis_stats' = r.analysis_stats
           /\ ret' = r.ret
           /\ calls' = r.calls
    /\ file' = f
    /\ pc' = "analyzed"
    /\ \/ remembered' = remembered
       \/ /\ pc = "analyzed"
          /\ remembered' = <<[file |-> file, ret |-> ret]>>
    /\ UNCHANGED <<config, chars, arg_n>>

Next == \E f \in Files : Analyze(f)

Spec == Init /\ [][Next]_vars

----------------------------------------------------------------------------
(* Properties of the aggregator calls *)

\* the number of occurrences of c in s, counted independently of Counter
Occ(c, s) == Cardinality({i \in DOMAIN s : s[i] = c})

FirstOcc(c, s) == CHOOSE i \in DOMAIN s : s[i] = c /\ \A j \in 1 .. i - 1 : s[j] # c

RECURSIVE SumOver(_, _)
SumOver(f, S) ==
    IF S = {} THEN 0
    ELSE LET x == CHOOSE y \in S : TRUE IN f[x] + SumOver(f, S \ {x})

\* sum(counts.values())
SumValues(counts) == SumOver(counts, DOMAIN counts)

RankedDesc(top) == \A i, j \in DOMAIN top : i < j => top[i][2] >= top[j][2]

TiesByFirstOcc(top, s) ==
    \A i, j \in DOMAIN top :
        i < j /\ top[i][2] = top[j][2] => FirstOcc(top[i][1], s) < FirstOcc(top[j][1], s)

Entries(seq) == {seq[i] : i \in DOMAIN seq}

\* every entry of the counter, each once, ranked by count
AllRanked(top, counter) ==
    /\ Len(top) = Len(counter)
    /\ Entries(top) = Entries(counter)
    /\ RankedDesc(top)

\* the k highest entries of the counter, ranked by count
TopRanked(top, counter, k) ==
    /\ Len(top) = Min(k, Len(counter))
    /\ Entries(top) \subseteq Entries(counter)
    /\ RankedDesc(top)
    /\ \A e \in Entries(counter) \ Entries(top) :
           \A i \in DOMAIN top : e[2] <= top[i][2]

\* C2: in a report generated after calculate_frequency on the same sequence,
\* top_characters is sorted by count descending, equal counts are ordered by
\* first occurrence in the sequence (also after the min_frequency filter), and
\* its length is min(top_n, unique_characters).
C2_TopCharactersOrder ==
    pc = "reported" =>
        /\ RankedDesc(ret.top_characters)
        /\ TiesByFirstOcc(ret.top_characters, chars)
        /\ Len(ret.top_characters)
               = Min(config.top_n, ret.basic_stats.unique_characters)

C2_Witness ==
    /\ pc = "reported"
    /\ config.min_frequency = 2
    /\ Len(char_counter) < Cardinality({chars[i] : i \in DOMAIN chars})
    /\ Len(ret.top_characters) = 2
    /\ ret.top_characters[1][2] = ret.top_characters[2][2]

\* C3 as stated: unique_characters is the size of the counts mapping,
\* 0 <= coverage_ratio <= 1, and coverage_ratio = 0 exactly when
\* total_characters = 0, for every min_frequency >= 1.
C3_Original ==
    pc = "reported" /\ config.min_frequency >= 1 =>
        /\ ret.basic_stats.unique_characters = Cardinality(Keys(char_counter))
        /\ 0 <= ret.basic_stats.coverage_ratio.num
        /\ ret.basic_stats.coverage_ratio.num <= ret.basic_stats.coverage_ratio.den
        /\ ret.basic_stats.unique_characters <= ret.basic_stats.total_characters
        /\ (ret.basic_stats.coverage_ratio.num = 0
               <=> ret.basic_stats.total_characters = 0)

\* C3 amended: in a report generated after calculate_frequency on the same
\* sequence, unique_characters is the size of the counts mapping,
\* 0 <= coverage_ratio <= 1, coverage_ratio = 0 exactly when
\* unique_characters = 0 (total_characters = 0, or min_frequency > 1 dropped
\* every character), and with min_frequency = 1 exactly when
\* total_characters = 0.
C3_CoverageRatio ==
    pc = "reported" /\ config.min_frequency >= 1 =>
        /\ ret.basic_stats.unique_characters = Cardinality(Keys(char_counter))
        /\ ret.basic_stats.unique_characters = Cardinality(DOMAIN Dict(char_counter))
        /\ 0 <= ret.basic_stats.coverage_ratio.num
        /\ ret.basic_stats.coverage_ratio.num <= ret.basic_stats.coverage_ratio.den
        /\ ret.basic_stats.unique_characters <= ret.basic_stats.total_characters
        /\ (ret.basic_stats.coverage_ratio.num = 0
               <=> ret.basic_stats.unique_characters = 0)
        /\ (ret.basic_stats.total_characters = 0
               => ret.basic_stats.coverage_ratio = Zero)
        /\ (config.min_frequency = 1 =>
               (ret.basic_stats.coverage_ratio.num = 0
                   <=> ret.basic_stats.total_characters = 0))

C3_Witness ==
    /\ pc = "reported"
    /\ config.min_frequency = 2
    /\ ret.basic_stats.total_characters > 0
    /\ ret.basic_stats.unique_characters = 0
    /\ ret.basic_stats.coverage_ratio = Zero

\* C4 as stated: for every non-empty sequence given to calculate_frequency,
\* under any configuration, the returned counts sum to the length of the
\* sequence.
C4_Original ==
    pc = "calculated" /\ chars # <<>> => SumValues(ret) = Len(chars)

\* C4 amended: for every non-empty sequence given to calculate_frequency, the
\* returned counts sum to the number of elements of the sequence whose
\* character occurs at least min_frequency times: to the length of the
\* sequence when min_frequency <= 1, and to no more than it otherwise.
C4_SumOfCounts ==
    pc = "calculated" /\ chars # <<>> =>
        /\ SumValues(ret) = Cardinality({i \in DOMAIN chars :
                                Occ(chars[i], chars) >= config.min_frequency})
        /\ (config.min_frequency <= 1 => SumValues(ret) = Len(chars))
        /\ SumValues(ret) <= Len(chars)

C4_Witness ==
    /\ pc = "calculated"
    /\ config.min_frequency = 1
    /\ Len(chars) = 3
    /\ Cardinality(DOMAIN ret) = 2
    /\ SumValues(ret) = 3

\* C8 as stated: get_top_characters(n) returns every entry of the counts
\* mapping, ranked by count, for every n <= 0 and for every n greater than
\* the number of unique characters.
C8_Original ==
    pc = "top" /\ arg_n # <<>> /\ (arg_n[1] <= 0 \/ arg_n[1] > Len(char_counter)) =>
        AllRanked(ret, char_counter)

\* C8 amended: get_top_characters(n) never raises; for every n greater than
\* the number of unique characters it returns every entry ranked by count;
\* for n < 0 it returns the empty list; for n = 0, as for n omitted, it
\* returns the min(top_n, unique) highest entries ranked by count.
C8_TopArgument ==
    pc = "top" =>
        /\ arg_n # <<>> /\ arg_n[1] > Len(char_counter) => AllRanked(ret, char_counter)
        /\ arg_n # <<>> /\ arg_n[1] > 0 => TopRanked(ret, char_counter, arg_n[1])
        /\ arg_n # <<>> /\ arg_n[1] < 0 => ret = <<>>
        /\ arg_n = <<>> \/ arg_n[1] = 0 => TopRanked(ret, char_counter, config.top_n)

C8_Witness ==
    /\ pc = "top"
    /\ arg_n = <<0>>
    /\ Len(char_counter) = 3
    /\ config.top_n = 2
    /\ Len(ret) = 2

\* C9: calculate_frequency returns a mapping whose keys are exactly the
\* characters occurring at least max(1, min_frequency) times in the
\* sequence, each mapped to its number of occurrences; min_frequency = 1
\* drops nothing, and min_frequency = 2 turns {A:1, B:2, C:3} into {B:2, C:3}.
C9_CountsMapping ==
    pc = "calculated" =>
        /\ DOMAIN ret = {c \in ChineseChars :
                            Occ(c, chars) >= (IF config.min_frequency > 1
                                              THEN config.min_frequency ELSE 1)}
        /\ \A c \in DOMAIN ret : ret[c] = Occ(c, chars)
        /\ (config.min_frequency = 1 => DOMAIN ret = {chars[i] : i \in DOMAIN chars})
        /\ (config.min_frequency = 2 /\ chars = ScenarioD
               => ret = [c \in {Er, San} |-> IF c = Er THEN 2 ELSE 3])

C9_Witness ==
    /\ pc = "calculated"
    /\ config.min_frequency = 2
    /\ chars = ScenarioD
    /\ DOMAIN ret = {Er, San}
    /\ ret[Er] = 2
    /\ ret[San] = 3

----------------------------------------------------------------------------
(* Properties of load_text_file *)

\* the same content in a file below the large-file threshold
SmallTwin(f) == [f EXCEPT !.size = LargeFileThreshold]

CountsOf(cfg, text) ==
    calculate_frequency(cfg, <<>>, extract_chinese_chars(cfg, text)).result

\* C6 as stated: for every file content and every chunk_size the chunked
\* path ends and returns the text the single-read path returns, so the
\* character counts of a file above the threshold are those of the same
\* content read at once.
C6_Original ==
    pc = "loaded" /\ file.exists /\ file.size > LargeFileThreshold =>
        /\ ret.raised = load_text_file(config, SmallTwin(file)).raised
        /\ ret.text = load_text_file(config, SmallTwin(file)).text
        /\ CountsOf(config, ret.text)
               = CountsOf(config, load_text_file(config, SmallTwin(file)).text)

\* C6 amended: for every file content and every chunk_size other than 0 the
\* chunked path ends, after at most one read per character and one more,
\* and returns the text the single-read path returns, so the character
\* counts are the same; with chunk_size = 0 the first read is empty and the
\* chunked path returns the empty text.
C6_ChunkedEqualsSingle ==
    pc = "loaded" /\ file.exists /\ file.size > LargeFileThreshold =>
        /\ ret.raised = load_text_file(config, SmallTwin(file)).raised
        /\ ret.reads <= Len(ret.text) + 1
        /\ config.chunk_size # 0 =>
               /\ ret.text = load_text_file(config, SmallTwin(file)).text
               /\ CountsOf(config, ret.text)
                      = CountsOf(config, load_text_file(config, SmallTwin(file)).text)
        /\ config.chunk_size = 0 /\ ret.path = "chunked" =>
               ret.text = <<>> /\ ret.reads = 1

C6_Witness ==
    /\ pc = "loaded"
    /\ ret.path = "chunked"
    /\ config.chunk_size = 1
    /\ ret.text = <<Yi, LetterH>>
    /\ ret.reads = 3

FirstReadable(f) ==
    CHOOSE i \in DOMAIN FallbackEncodings :
        /\ OpenRaises(f, FallbackEncodings[i]) = ""
        /\ \A j \in 1 .. i - 1 : OpenRaises(f, FallbackEncodings[j]) # ""

\* C10: for an existing path, whenever the read under the detected encoding
\* fails (a decode error, or a detector answer that cannot be used), the
\* fallbacks are tried in the order gbk, gb2312, utf-8, latin-1, the text of
\* the first that reads is returned and no later one is tried; no failure
\* of the detector or of one fallback reaches the caller; the call fails,
\* with the unreadable-file error, only when the whole chain has failed.  A
\* missing path fails with the not-found error before any detection or read.
C10_FallbackChain ==
    pc = "loaded" =>
        /\ ~file.exists =>
               /\ ret.raised = "FileNotFoundError"
               /\ ~ret.detected
               /\ ret.opened = <<>>
        /\ file.exists => ret.raised \in {"", "Exception"}
        /\ file.exists /\ OpenRaises(file, detect_encoding(file)) # "" =>
               IF \A i \in DOMAIN FallbackEncodings :
                      OpenRaises(file, FallbackEncodings[i]) # ""
               THEN /\ ret.raised = "Exception"
                    /\ ret.opened = <<detect_encoding(file)>> \o FallbackEncodings
               ELSE /\ ret.raised = ""
                    /\ ret.text = Decode(file, FallbackEncodings[FirstReadable(file)])
                    /\ ret.opened = <<detect_encoding(file)>>
                           \o SubSeq(FallbackEncodings, 1, FirstReadable(file))
        /\ file.exists /\ OpenRaises(file, detect_encoding(file)) = "" =>
               ret.raised = "" /\ ret.opened = <<detect_encoding(file)>>

----------------------------------------------------------------------------
(* Properties of analyze *)

ExpectedErrors ==
    {[raised |-> "FileNotFoundError", message |-> "file does not exist"],
     [raised |-> "Exception", message |-> "no encoding could read the file"],
     [raised |-> "ValueError", message |-> "file content is empty"],
     [raised |-> "ValueError", message |-> "no Chinese characters found"]}

\* C1: analyze returns a populated report or fails with the not-found, the
\* unreadable-file, the empty-input or the empty-extraction error, with no
\* other error, and never fails once a report has been produced and handed
\* to save_results.
C1_ReportOrExpectedError ==
    pc = "analyzed" =>
        \/ /\ ret.raised = ""
           /\ ret.report # <<>>
           /\ ret.report[1].basic_stats.total_characters > 0
        \/ /\ [raised |-> ret.raised, message |-> ret.message] \in ExpectedErrors
           /\ ret.report = <<>>
           /\ \A i \in DOMAIN calls : calls[i] # "save_results"

AllWhitespace(text) == \A i \in DOMAIN text : text[i] \in Whitespace

NoIdeograph(text) == \A i \in DOMAIN text : text[i] < ChineseLo \/ text[i] > ChineseHi

\* C5: analyze fails fast in pipeline order.  When the loaded text is empty
\* or whitespace only it raises the empty-input error and extraction has not
\* run; when the text is not blank but holds no code point of U+4E00..U+9FFF
\* it raises the empty-extraction error, told from the former by its
\* message, and aggregation has not run.  In both cases the aggregator, the
\* report generator and the persistence and visualization steps are not
\* invoked, the analyzer's counts and stats are untouched and no report is
\* returned.
C5_FailFast ==
    [][pc' = "analyzed" /\ load_text_file(config, file').raised = "" =>
          LET text == load_text_file(config, file').text
          IN  /\ AllWhitespace(text) =>
                     /\ ret'.raised = "ValueError"
                     /\ ret'.message = "file content is empty"
                     /\ calls' = <<"load_text_file">>
                     /\ ret'.report = <<>> /\ ret'.written = {}
                     /\ char_counter' = char_counter
                     /\ analysis_stats' = analysis_stats
              /\ ~AllWhitespace(text) /\ NoIdeograph(text) =>
                     /\ ret'.raised = "ValueError"
                     /\ ret'.message = "no Chinese characters found"
                     /\ calls' = <<"load_text_file", "extract_chinese_chars">>
                     /\ ret'.report = <<>> /\ ret'.written = {}
                     /\ char_counter' = char_counter
                     /\ analysis_stats' = analysis_stats]_vars

C5_Witness ==
    /\ pc = "analyzed"
    /\ file.bytes = <<IdeographicSpace, Newline>>
    /\ ret.message = "file content is empty"
    /\ calls = <<"load_text_file">>
    /\ char_counter # <<>>

\* C7: a run of analyze on a file gives the outcome (the basic_stats, the
\* frequency_stats and the top_characters of its report) that an earlier run
\* of the same analyzer on the same file gave, whatever ran in between.
C7_Idempotent ==
    pc = "analyzed" /\ remembered # <<>> /\ remembered[1].file = file =>
        remembered[1].ret = ret

C7_Witness ==
    /\ pc = "analyzed"
    /\ remembered # <<>>
    /\ remembered[1].file = file
    /\ file.bytes = <<Yi, Yi, San>>
    /\ ret.raised = ""
    /\ ret.report[1].top_characters = <<<<Yi, 2>>>>

====
